---------------------------- MODULE Spec2Model ----------------------------
(***************************************************************************)
(* Model of the Sudoku CSP solver of "SUdoko Solver/main.py": the class    *)
(* SudokuCSP (is_valid, get_domain, find_mrv_cell, solve) and the part of  *)
(* main() that owns the puzzle, edits it and hands it to the solver.       *)
(*                                                                         *)
(* The recursion of solve is unfolded into an explicit stack of frames;    *)
(* every frame is one active invocation of solve.                          *)
(***************************************************************************)
EXTENDS Integers, Sequences, FiniteSets, TLC

(* self.size of SudokuCSP.__init__ *)
size == 9

(* Bound of the model: how many cells the user edits before solving. *)
MaxEdits == 2

Idx == 0 .. (size - 1)

(* The literal puzzle of main(), row by row. *)
SampleRows ==
  << <<5, 3, 0, 0, 7, 0, 0, 0, 0>>,
     <<6, 0, 0, 1, 9, 5, 0, 0, 0>>,
     <<0, 9, 8, 0, 0, 0, 0, 6, 0>>,
     <<8, 0, 0, 0, 6, 0, 0, 0, 3>>,
     <<4, 0, 0, 8, 0, 3, 0, 0, 1>>,
     <<7, 0, 0, 0, 2, 0, 0, 0, 6>>,
     <<0, 6, 0, 0, 0, 0, 2, 8, 0>>,
     <<0, 0, 0, 4, 1, 9, 0, 0, 5>>,
     <<0, 0, 0, 0, 8, 0, 0, 7, 9>> >>

(* Python lists are indexed from 0. *)
SamplePuzzle == [r \in Idx |-> [c \in Idx |-> SampleRows[r + 1][c + 1]]]

(* The (row, col, num) triples the user enters under option 1, after the   *)
(* conversion of row and column to 0-based indices.  Each passes the range *)
(* test of main(); the set is a sample of the 810 triples that do.         *)
EditInputs ==
  { <<0, 4, 0>>, <<1, 4, 0>>, <<1, 4, 1>>, <<0, 5, 5>>,
    <<0, 3, 2>>, <<0, 0, 1>>, <<0, 0, 3>> }

(* "no solver object yet" and the None of find_mrv_cell *)
None == <<>>

VARIABLES
  puzzle,     \* the list of lists that main() owns
  edits,      \* number of option-1 edits made so far
  grid,       \* self.grid of the SudokuCSP object (None before construction)
  aliased,    \* TRUE iff self.grid is the very list object main() owns
  stack,      \* the active invocations of solve, outermost first
  pc,         \* "menu", "call", "ret", "next", "done", "exit"
  ret,        \* the value the invocation on top of the stack returns
  input       \* history: the solver's grid when main() called solve

vars == <<puzzle, edits, grid, aliased, stack, pc, ret, input>>

---------------------------------------------------------------------------
(* Mutant of is_valid: the box column is derived from the row. *)
is_valid_box_from_row(g, row, col, num) ==
  IF \E c \in Idx : g[row][c] = num
    THEN FALSE
  ELSE IF \E r \in Idx : g[r][col] = num
    THEN FALSE
  ELSE
    LET box_row == (row \div 3) * 3
        box_col == (row \div 3) * 3
    IN  ~ \E r \in box_row .. (box_row + 3 - 1) :
            \E c \in box_col .. (box_col + 3 - 1) : g[r][c] = num

(* Mutant of is_valid: the column constraint is missing. *)
is_valid_no_column(g, row, col, num) ==
  IF \E c \in Idx : g[row][c] = num
    THEN FALSE
  ELSE
    LET box_row == (row \div 3) * 3
        box_col == (col \div 3) * 3
    IN  ~ \E r \in box_row .. (box_row + 3 - 1) :
            \E c \in box_col .. (box_col + 3 - 1) : g[r][c] = num

(* Mutant of is_valid: the row constraint is missing. *)
is_valid_no_row(g, row, col, num) ==
  IF \E r \in Idx : g[r][col] = num
    THEN FALSE
  ELSE
    LET box_row == (row \div 3) * 3
        box_col == (col \div 3) * 3
    IN  ~ \E r \in box_row .. (box_row + 3 - 1) :
            \E c \in box_col .. (box_col + 3 - 1) : g[r][c] = num

(* SudokuCSP.is_valid *)
is_valid(g, row, col, num) ==
  IF \E c \in Idx : g[row][c] = num
    THEN FALSE
  ELSE IF \E r \in Idx : g[r][col] = num
    THEN FALSE
  ELSE
    LET box_row == (row \div 3) * 3
        box_col == (col \div 3) * 3
    IN  ~ \E r \in box_row .. (box_row + 3 - 1) :
            \E c \in box_col .. (box_col + 3 - 1) : g[r][c] = num

(* range(1, 10) *)
range_1_10 == [i \in 1 .. 9 |-> i]

(* Mutant of get_domain: the test for a filled cell is missing. *)
get_domain_no_filled_test(g, row, col) ==
  SelectSeq(range_1_10, LAMBDA num : is_valid(g, row, col, num))

(* SudokuCSP.get_domain *)
get_domain(g, row, col) ==
  IF g[row][col] # 0
    THEN <<>>
    ELSE SelectSeq(range_1_10, LAMBDA num : is_valid(g, row, col, num))

(* Mutant of mrv_cols: the comparison is <= instead of <, so that the last *)
(* cell of a tie wins.                                                     *)
RECURSIVE mrv_cols_le(_, _, _, _, _)
mrv_cols_le(g, row, col, min_domain_size, best_cell) ==
  IF col = size
    THEN <<min_domain_size, best_cell>>
    ELSE LET domain == get_domain(g, row, col)
         IN  IF g[row][col] = 0 /\ Len(domain) <= min_domain_size
               THEN mrv_cols_le(g, row, col + 1, Len(domain), <<row, col, domain>>)
               ELSE mrv_cols_le(g, row, col + 1, min_domain_size, best_cell)

(* The inner loop of find_mrv_cell over the columns of one row; the result *)
(* is <<min_domain_size, best_cell>> after the row.                        *)
RECURSIVE mrv_cols(_, _, _, _, _)
mrv_cols(g, row, col, min_domain_size, best_cell) ==
  IF col = size
    THEN <<min_domain_size, best_cell>>
    ELSE LET domain == get_domain(g, row, col)
         IN  IF g[row][col] = 0 /\ Len(domain) < min_domain_size
               THEN mrv_cols(g, row, col + 1, Len(domain), <<row, col, domain>>)
               ELSE mrv_cols(g, row, col + 1, min_domain_size, best_cell)

(* The outer loop of find_mrv_cell over the rows; acc is                   *)
(* <<min_domain_size, best_cell>> before the row.  The state after the row *)
(* is a value, a, before the loop goes on: {f(a) : a \in {e}} is {f(e)}.   *)
RECURSIVE mrv_rows(_, _, _)
mrv_rows(g, row, acc) ==
  IF row = size
    THEN acc[2]
    ELSE CHOOSE r \in {mrv_rows(g, row + 1, a) :
                         a \in {mrv_cols(g, row, 0, acc[1], acc[2])}} : TRUE

(* SudokuCSP.find_mrv_cell: None, or <<row, col, domain>> *)
find_mrv_cell(g) == mrv_rows(g, 0, <<10, None>>)

(* Mutant of store: the value is not written. *)
store_nothing(g, row, col, num) == g

(* self.grid[row][col] = num *)
store(g, row, col, num) == [g EXCEPT ![row][col] = num]

(* Mutant of undo: the cell is left as it is. *)
undo_nothing(g, row, col) == g

(* Mutant of undo: row and column are exchanged. *)
undo_transposed(g, row, col) == [g EXCEPT ![col][row] = 0]

(* self.grid[row][col] = 0, the undo of line 72 *)
undo(g, row, col) == [g EXCEPT ![row][col] = 0]

(* Mutant of copy_grid: self.grid = grid, the caller's own object. *)
copy_grid_alias(g) == <<g, TRUE>>

(* self.grid = [row[:] for row in grid]: a fresh object with equal contents. *)
(* The result is <<contents, is-it-the-caller's-object>>.                     *)
copy_grid(g) == <<[r \in Idx |-> [c \in Idx |-> g[r][c]]], FALSE>>

---------------------------------------------------------------------------
Init ==
  /\ puzzle = SamplePuzzle
  /\ edits = 0
  /\ grid = None
  /\ aliased = FALSE
  /\ stack = <<>>
  /\ pc = "menu"
  /\ ret = FALSE
  /\ input = None

(* What main()'s list holds after a write to self.grid. *)
seen_by_main(g) == IF aliased THEN g ELSE puzzle

Top == stack[Len(stack)]
Pop == SubSeq(stack, 1, Len(stack) - 1)

(* A frame: the locals of one invocation of solve (row, col, domain, the   *)
(* 1-based position i of the for loop in domain), and entry, the grid as   *)
(* it was when the invocation began (history, read by no action).          *)
Frame(row, col, domain, i, entry) ==
  [row |-> row, col |-> col, domain |-> domain, i |-> i, entry |-> entry]

(* main(), option 1: puzzle[row][col] = num *)
Edit ==
  /\ pc = "menu"
  /\ edits < MaxEdits
  /\ \E e \in EditInputs :
       /\ e[1] \in Idx /\ e[2] \in Idx /\ e[3] \in 0 .. 9
       /\ puzzle' = [puzzle EXCEPT ![e[1]][e[2]] = e[3]]
  /\ edits' = edits + 1
  /\ UNCHANGED <<grid, aliased, stack, pc, ret, input>>

(* main(), option 2: solver = SudokuCSP(puzzle); solver.solve() is called *)
ChooseSolve ==
  /\ pc = "menu"
  /\ grid' = copy_grid(puzzle)[1]
  /\ aliased' = copy_grid(puzzle)[2]
  /\ input' = grid'
  /\ pc' = "call"
  /\ UNCHANGED <<puzzle, edits, stack, ret>>

(* main(), option 3 *)
Exit ==
  /\ pc = "menu"
  /\ pc' = "exit"
  /\ UNCHANGED <<puzzle, edits, grid, aliased, stack, ret, input>>

(* solve, lines 54-57: no empty cell, return True *)
SolveSolved ==
  /\ pc = "call"
  /\ find_mrv_cell(grid) = None
  /\ stack' = Append(stack, Frame(0, 0, <<>>, 0, grid))
  /\ ret' = TRUE
  /\ pc' = "ret"
  /\ UNCHANGED <<puzzle, edits, grid, aliased, input>>

(* solve, lines 54-62: the chosen cell has an empty domain, return False *)
SolveDeadEnd ==
  /\ pc = "call"
  /\ LET result == find_mrv_cell(grid) IN
       /\ result # None
       /\ result[3] = <<>>
       /\ stack' = Append(stack, Frame(result[1], result[2], result[3], 0, grid))
  /\ ret' = FALSE
  /\ pc' = "ret"
  /\ UNCHANGED <<puzzle, edits, grid, aliased, input>>

(* solve, lines 54-68: place the first value of the domain and recurse *)
SolveBranch ==
  /\ pc = "call"
  /\ LET result == find_mrv_cell(grid) IN
       /\ result # None
       /\ result[3] # <<>>
       /\ stack' = Append(stack, Frame(result[1], result[2], result[3], 1, grid))
       /\ grid' = store(grid, result[1], result[2], result[3][1])
       /\ puzzle' = seen_by_main(grid')
  /\ pc' = "call"
  /\ UNCHANGED <<edits, aliased, ret, input>>

(* The outermost invocation returns to main(), which prints and breaks. *)
ReturnToMain ==
  /\ pc = "ret"
  /\ Len(stack) = 1
  /\ stack' = Pop
  /\ pc' = "done"
  /\ UNCHANGED <<puzzle, edits, grid, aliased, ret, input>>

(* solve, lines 68-69: the recursive call returned True, return True *)
PropagateSuccess ==
  /\ pc = "ret"
  /\ Len(stack) > 1
  /\ ret = TRUE
  /\ stack' = Pop
  /\ pc' = "ret"
  /\ UNCHANGED <<puzzle, edits, grid, aliased, ret, input>>

(* Mutant of Backtrack: "return False" sits inside the for loop, so only   *)
(* the first value of a domain is ever tried.                              *)
Backtrack_return_in_loop ==
  /\ pc = "ret"
  /\ Len(stack) > 1
  /\ ret = FALSE
  /\ stack' = Pop
  /\ LET f == stack[Len(stack) - 1] IN
       /\ grid' = undo(grid, f.row, f.col)
       /\ puzzle' = seen_by_main(grid')
  /\ pc' = "ret"
  /\ UNCHANGED <<edits, aliased, ret, input>>

(* solve, lines 68-72: the recursive call returned False, reset the cell *)
Backtrack ==
  /\ pc = "ret"
  /\ Len(stack) > 1
  /\ ret = FALSE
  /\ stack' = Pop
  /\ LET f == stack[Len(stack) - 1] IN
       /\ grid' = undo(grid, f.row, f.col)
       /\ puzzle' = seen_by_main(grid')
  /\ pc' = "next"
  /\ UNCHANGED <<edits, aliased, ret, input>>

(* solve, lines 65-68: the for loop takes the next value and recurses *)
NextCandidate ==
  /\ pc = "next"
  /\ Top.i < Len(Top.domain)
  /\ stack' = [stack EXCEPT ![Len(stack)].i = Top.i + 1]
  /\ grid' = store(grid, Top.row, Top.col, Top.domain[Top.i + 1])
  /\ puzzle' = seen_by_main(grid')
  /\ pc' = "call"
  /\ UNCHANGED <<edits, aliased, ret, input>>

(* solve, line 74: the domain is exhausted, return False *)
Exhausted ==
  /\ pc = "next"
  /\ Top.i >= Len(Top.domain)
  /\ ret' = FALSE
  /\ pc' = "ret"
  /\ UNCHANGED <<puzzle, edits, grid, aliased, stack, input>>

SolveStep ==
  \/ SolveSolved \/ SolveDeadEnd \/ SolveBranch
  \/ ReturnToMain \/ PropagateSuccess \/ Backtrack
  \/ NextCandidate \/ Exhausted

Next ==
  \/ Edit \/ ChooseSolve \/ Exit
  \/ SolveSolved \/ SolveDeadEnd \/ SolveBranch
  \/ ReturnToMain \/ PropagateSuccess \/ Backtrack
  \/ NextCandidate \/ Exhausted

Spec == Init /\ [][Next]_vars

(* solve runs to completion once called: nothing suspends or cancels it. *)
FairSpec == Spec /\ WF_vars(SolveStep)

---------------------------------------------------------------------------
(* Vocabulary of the properties: cells, units, duplicates, completions.    *)

Cells == Idx \X Idx

at(g, p) == g[p[1]][p[2]]

SameRow(p, q) == p[1] = q[1]
SameCol(p, q) == p[2] = q[2]
SameBox(p, q) == p[1] \div 3 = q[1] \div 3 /\ p[2] \div 3 = q[2] \div 3

(* The 27 units: 9 rows, 9 columns, 9 boxes. *)
Units ==
  {{p \in Cells : p[1] = r} : r \in Idx} \cup
  {{p \in Cells : p[2] = c} : c \in Idx} \cup
  {{p \in Cells : SameBox(p, <<3 * (b \div 3), 3 * (b % 3)>>)} : b \in Idx}

(* The cells that share a unit with p, p excluded. *)
Peers ==
  [p \in Cells |->
     {q \in Cells : q # p /\ (SameRow(p, q) \/ SameCol(p, q) \/ SameBox(p, q))}]

(* No non-zero value twice in a row, a column or a box. *)
NoDup(g) ==
  \A u \in Units : \A p \in u : \A q \in u :
     (p # q /\ at(g, p) # 0) => at(g, p) # at(g, q)

EmptyCells(g) == {p \in Cells : at(g, p) = 0}

(* Every row, column and box is a permutation of 1..9. *)
IsSolved(g) == \A u \in Units : {at(g, p) : p \in u} = 1 .. 9

(* g can be filled up, one empty cell after the other, without ever       *)
(* repeating a value in a unit.                                            *)
RECURSIVE Extensible(_)
Extensible(g) ==
  IF \A p \in Cells : at(g, p) # 0
    THEN TRUE
    ELSE LET p == CHOOSE q \in Cells : at(g, q) = 0
         IN  \E v \in 1 .. 9 :
               /\ \A q \in Peers[p] : at(g, q) # v
               /\ Extensible([g EXCEPT ![p[1]][p[2]] = v])

(* g has a legal completion: a full grid that agrees with g on the filled  *)
(* cells and in which every unit is a permutation of 1..9.                 *)
Completable(g) == NoDup(g) /\ Extensible(g)

Constructed == grid # None

---------------------------------------------------------------------------
(* C6: is_valid(row, col, num) is false exactly when num occurs in the     *)
(* row, in the column or in the 3x3 box of (row, col), for every cell and  *)
(* every digit, on every grid the solver reaches.                          *)
C6_IsValid ==
  Constructed =>
    \A row \in Idx : \A col \in Idx : \A num \in 1 .. 9 :
      is_valid(grid, row, col, num) =
        ~ \/ num \in {grid[row][c] : c \in Idx}
          \/ num \in {grid[r][col] : r \in Idx}
          \/ \E r \in Idx : /\ r \div 3 = row \div 3
                            /\ \E c \in Idx : /\ c \div 3 = col \div 3
                                              /\ grid[r][c] = num

(* A grid where a digit is absent from a cell's row and column but present *)
(* in its box, and is_valid rejects it, while it accepts another digit.    *)
C6_Witness ==
  /\ Constructed
  /\ \E row \in Idx : \E col \in Idx : \E num \in 1 .. 9 :
       /\ num \notin {grid[row][c] : c \in Idx}
       /\ num \notin {grid[r][col] : r \in Idx}
       /\ ~ is_valid(grid, row, col, num)
       /\ \E other \in 1 .. 9 : is_valid(grid, row, col, other)

(* C8: get_domain of a filled cell is the empty sequence; of an empty cell *)
(* it is the ascending, repetition-free list of the digits is_valid        *)
(* accepts.                                                                *)
C8_GetDomain ==
  Constructed =>
    \A row \in Idx : \A col \in Idx :
      LET d == get_domain(grid, row, col)
      IN  IF grid[row][col] # 0
            THEN d = <<>>
            ELSE /\ \A i \in 1 .. (Len(d) - 1) : d[i] < d[i + 1]
                 /\ {d[i] : i \in 1 .. Len(d)} =
                      {num \in 1 .. 9 : is_valid(grid, row, col, num)}

(* A grid with a filled cell some digit would still fit, and an empty cell *)
(* with at least two candidates.                                           *)
C8_Witness ==
  /\ Constructed
  /\ \E row \in Idx : \E col \in Idx :
       /\ grid[row][col] # 0
       /\ \E num \in 1 .. 9 : is_valid(grid, row, col, num)
  /\ \E row \in Idx : \E col \in Idx :
       /\ grid[row][col] = 0
       /\ Len(get_domain(grid, row, col)) >= 2

(* Position of a cell in the row-major scan. *)
RowMajor(row, col) == row * size + col

(* C7: find_mrv_cell returns None when no cell is empty; otherwise an      *)
(* empty cell of minimum domain size, the first such cell in row-major     *)
(* order, with the domain get_domain computes for it.                      *)
C7_FindMrv ==
  Constructed =>
    LET res == find_mrv_cell(grid)
        E == EmptyCells(grid)
    IN  IF E = {}
          THEN res = None
          ELSE /\ res # None
               /\ <<res[1], res[2]>> \in E
               /\ res[3] = get_domain(grid, res[1], res[2])
               /\ \A p \in E :
                    \/ Len(get_domain(grid, p[1], p[2])) > Len(res[3])
                    \/ /\ Len(get_domain(grid, p[1], p[2])) = Len(res[3])
                       /\ RowMajor(res[1], res[2]) <= RowMajor(p[1], p[2])

(* A grid where two empty cells tie for the minimum domain size and a      *)
(* larger domain comes earlier in the scan.                                *)
C7_Witness ==
  /\ Constructed
  /\ LET res == find_mrv_cell(grid) IN
       /\ res # None
       /\ \E p \in EmptyCells(grid) :
            /\ p # <<res[1], res[2]>>
            /\ Len(get_domain(grid, p[1], p[2])) = Len(res[3])
       /\ \E p \in EmptyCells(grid) :
            /\ RowMajor(p[1], p[2]) < RowMajor(res[1], res[2])
            /\ Len(get_domain(grid, p[1], p[2])) > Len(res[3])

(* C4: an invocation of solve that returns False, outermost or nested, on *)
(* any grid, leaves the grid as it was when that invocation began.         *)
C4_FailureRestores ==
  (pc = "ret" /\ ret = FALSE) => grid = Top.entry

(* A nested invocation returns False after it has placed and withdrawn     *)
(* every value of a domain of two or more.                                 *)
C4_Witness ==
  /\ pc = "ret" /\ ret = FALSE
  /\ Len(stack) > 1
  /\ Len(Top.domain) >= 2
  /\ Top.i = Len(Top.domain)
  /\ grid = Top.entry

(* C5: started on a grid without duplicates, the search never holds a grid *)
(* with a non-zero value twice in a row, a column or a box.                *)
C5_NoConflict ==
  (Constructed /\ NoDup(input)) => NoDup(grid)

(* The search, three values deep on a duplicate-free input, has just       *)
(* withdrawn a value.                                                      *)
C5_Witness ==
  /\ pc = "next"
  /\ Len(stack) >= 3
  /\ NoDup(input)
  /\ NoDup(grid)

(* C10: a cell that is filled in the input grid keeps its value in every   *)
(* state of the search, so a completed grid extends the input.             *)
C10_GivensKept ==
  Constructed =>
    \A p \in Cells : at(input, p) # 0 => at(grid, p) = at(input, p)

(* The search has backtracked and ended with every cell filled, the given  *)
(* ones as they were.                                                      *)
C10_Witness ==
  /\ pc = "done" /\ ret = TRUE
  /\ input # SamplePuzzle
  /\ EmptyCells(input) # {}
  /\ EmptyCells(grid) = {}
  /\ \A p \in Cells : at(input, p) # 0 => at(grid, p) = at(input, p)

(* C1: when the input grid has a legal completion, solve returns True and  *)
(* leaves a grid in which every row, column and box is a permutation of    *)
(* 1..9.                                                                   *)
C1_SolvableSolved ==
  pc = "done" =>
    \/ ret = TRUE /\ IsSolved(grid)
    \/ ~ Completable(input)

(* A completable puzzle other than the sample, solved. *)
C1_Witness ==
  /\ pc = "done" /\ ret = TRUE
  /\ input # SamplePuzzle
  /\ IsSolved(grid)
  /\ Completable(input)

(* C2 as stated: on every input without a legal completion, duplicates in  *)
(* the input included, solve returns False with the grid as at the call.   *)
C2_Original ==
  pc = "done" =>
    \/ ret = FALSE /\ grid = input
    \/ Completable(input)

(* C2 as amended: on every input that has no duplicate in a row, column or *)
(* box and no legal completion, solve returns False with the grid as at    *)
(* the call.                                                               *)
C2_Amended ==
  pc = "done" =>
    \/ ret = FALSE /\ grid = input
    \/ ~ NoDup(input)
    \/ Completable(input)

(* A duplicate-free puzzle without completion, reported unsolvable. *)
C2_Witness ==
  /\ pc = "done" /\ ret = FALSE
  /\ grid = input
  /\ NoDup(input)
  /\ ~ Completable(input)

(* C3 as stated: after a successful solve the grid of the caller, main()'s *)
(* puzzle, has no empty cell.                                              *)
C3_Original ==
  (pc = "done" /\ ret = TRUE) => EmptyCells(puzzle) = {}

(* C3 as amended: the solver works on a copy made by the constructor: the  *)
(* caller's grid stays as it was at the call, and after a successful solve *)
(* it is the solver's own grid that has no empty cell.                     *)
C3_Amended ==
  /\ Constructed => puzzle = input
  /\ (pc = "done" /\ ret = TRUE) => EmptyCells(grid) = {}

(* Solved: the solver's grid is full, the caller's still has its holes. *)
C3_Witness ==
  /\ pc = "done" /\ ret = TRUE
  /\ EmptyCells(grid) = {}
  /\ EmptyCells(puzzle) # {}
  /\ puzzle = input

(* C9 as stated: the number of nested active invocations of solve never    *)
(* exceeds the number of empty cells of the input grid.                    *)
C9_Original ==
  Constructed => Len(stack) <= Cardinality(EmptyCells(input))

(* C9 as amended: solve terminates, and the number of nested active        *)
(* invocations never exceeds the number of empty cells of the input grid   *)
(* plus one (hence 82): the innermost invocation of a successful search    *)
(* runs on the full grid.                                                  *)
C9_Amended ==
  /\ [](Constructed => Len(stack) <= Cardinality(EmptyCells(input)) + 1)
  /\ (pc = "call") ~> (pc = "done")

(* The bound is attained: one invocation per empty cell and one more. *)
C9_Witness ==
  /\ Constructed
  /\ EmptyCells(input) # {}
  /\ Len(stack) = Cardinality(EmptyCells(input)) + 1

=============================================================================
